---------------------------- MODULE Spec2Model ----------------------------
(*
  Order tracking in the collection-center client.

  One screen is mounted at a time (NavigationContainer.renderScreen).  The
  screens that observe an order are DeliveryCreated (5 s status poll),
  ActiveDeliveryDetails (one load on mount, then a 30 s rider-location poll
  once a rider is known) and OrderDetails (one load on mount, pull to
  refresh).  The backend is outside the repository: it is modelled as the
  order service the client calls, with a forward-only status per order.  A
  request captures the backend's order when it is sent, and responses come
  back in any order.  The order service stamps a step when the order enters
  it, or leaves the stamp null; a stamp never changes afterwards.  The rider's
  location and the estimated arrival in a response are inputs chosen when the
  response is handled.

  Not modelled: the QR code and support-contact loads of the two tracking
  screens (they write only qrData / supportContacts, which no handler below
  reads), styling, the registration screens.

  The parts of the app that the tracking screens do not touch have their own
  specifications over the same variables: the map region of
  ActiveDeliveryDetails (MapSpec), its timeline for every order
  (TimelineSpec), the session with the ApiClient's token refresh
  (SessionSpec), the OTP countdown (OtpSpec), the two order lists (ListsSpec)
  and the Create Delivery form (FormSpec).  axios is outside the repository:
  a request sent again through this.client(originalRequest) keeps the _retry
  mark of its config.
*)
EXTENDS Integers, Sequences, FiniteSets, Bags, TLC

\* ------------------------------------------------------------------ bounds
MaxMounts == 2      \* tracked-screen mounts in one run
MaxInflight == 2    \* requests awaiting their response at one time
MaxLoc == 1         \* distinct valid rider positions (0 is "no position")
MaxEta == 1         \* distinct estimated-arrival strings (0 is absent)
MaxMissing == 1     \* reached steps the order service leaves unstamped
MaxFails == 3       \* the consecutive-failure count saturates here

\* ------------------------------------------------------- program constants
PollIntervalMs == 5000       \* DeliveryCreatedScreen: setInterval(pollRiderStatus, 5000)
LocationIntervalMs == 30000  \* ActiveDeliveryDetails: setInterval(pollRiderLocation, 30000)

\* The order ids of the run ("" is no id).
Orders == {"ORD-1"}

\* RiderStatus['status'] of DeliveryCreatedScreen; "none" is an order id the
\* backend has not created yet.
Lifecycle == << "pending_rider_assignment", "assigned", "pickup_started",
                "picked_up", "delivery_started", "delivered" >>
Statuses == { Lifecycle[i] : i \in 1..Len(Lifecycle) } \cup {"cancelled"}

Rank(s) == IF s = "cancelled" THEN 7
           ELSE IF s \in {"none", "null"} THEN 0
           ELSE CHOOSE i \in 1..Len(Lifecycle) : Lifecycle[i] = s

\* OrderDetails.timing: the lifecycle-step timestamps of an order.
TsFields == {"assigned_at", "pickup_started_at", "picked_up_at",
             "delivery_started_at", "delivered_at"}

\* The status whose entry a timestamp field records.
StepOf(f) == CASE f = "assigned_at" -> "assigned"
               [] f = "pickup_started_at" -> "pickup_started"
               [] f = "picked_up_at" -> "picked_up"
               [] f = "delivery_started_at" -> "delivery_started"
               [] f = "delivered_at" -> "delivered"

NoTimestamps == [f \in TsFields |-> 0]

VARIABLES
  backend,        \* order id -> the order held by the order service
  currentScreen,  \* NavigationContainer: currentScreen
  navigationData, \* NavigationContainer: orderData / deliveryId / orderId
  inst,           \* number of the mounted tracked-screen instance
  riderStatus,    \* DeliveryCreatedScreen: riderStatus + isLoadingRider
  details,        \* ActiveDeliveryDetailsScreen: orderData, timeline, locationState
  orderDetails,   \* OrderDetailsScreen: orderDetails, chainOfCustody, flags
  timers,         \* setInterval handles that were not cleared
  timeouts,       \* setTimeout(fitToCoordinates) handles that did not fire yet
  inflight,       \* requests sent whose response has not been handled
  last,           \* the last response handled: its outcome, and whether it
                  \* carried what the screen already held
  fails,          \* consecutive failed polls of the mounted instance
  locationState,  \* ActiveDeliveryDetailsScreen: the coordinates of locationState
  storage,        \* AsyncStorage: access_token, refresh_token, user_data
  auth,           \* useAuthStore: isAuthenticated, isLoading
  api,            \* ApiClient: the requests that went through its interceptors
  otp,            \* OTPVerificationScreen: timeLeft, canResend, otp, the timer
  lists,          \* ActiveDeliveriesScreen.deliveries, DeliveryHistoryScreen.deliveryHistory
  form            \* CreateDeliveryScreen: features, selectedHospital, sampleTypes

\* The state of the tracking screens and of the order service.
trackingVars == << backend, navigationData, inst, riderStatus, details,
                   orderDetails, timers, timeouts, inflight, last, fails >>

\* The state the tracking screens never write.
otherVars == << locationState, storage, auth, api, otp, lists, form >>

vars == << currentScreen, trackingVars, otherVars >>


\* -------------------------------------------------------------- the backend
\* What GET /orders/:id answers with for an order.
\* order.status, order.rider_id (present or not), order.updated_at and the
\* step timestamps (0: null).
NewOrder == [status |-> "pending_rider_assignment", rider |-> FALSE,
             updated_at |-> 1, ts |-> NoTimestamps]
NotCreated == [status |-> "none", rider |-> FALSE, updated_at |-> 0,
               ts |-> NoTimestamps]
\* orderData / orderDetails before the first response: null.
NoOrder == [status |-> "null", rider |-> FALSE, updated_at |-> 0,
            ts |-> NoTimestamps]

\* The timestamp field that records the entry into a status.
FieldOf(status) == CHOOSE f \in TsFields : StepOf(f) = status

\* The instant a lifecycle step is stamped with, in the order's own time: the
\* step's place in the lifecycle.
InstantOf(f) == Rank(StepOf(f))

\* The steps the order passed without a stamp.
Unstamped(b) == { f \in TsFields : InstantOf(f) <= Rank(b.status) /\ b.ts[f] = 0 }

Cancellable(s) == s \in Statuses \ {"delivered", "cancelled"}

\* The rider, hospital or dispatcher moves the order one edge forward.
BackendAdvance(o) ==
  /\ backend[o].status \in Statuses \ {"delivered", "cancelled"}
  /\ LET next == Lifecycle[Rank(backend[o].status) + 1]
     IN \E stamped \in BOOLEAN :
          /\ stamped \/ Cardinality(Unstamped(backend[o])) < MaxMissing
          /\ backend' = [backend EXCEPT ![o] =
                           [status |-> next, rider |-> TRUE,
                            updated_at |-> backend[o].updated_at + 1,
                            ts |-> [backend[o].ts EXCEPT ![FieldOf(next)] =
                                      IF stamped THEN InstantOf(FieldOf(next)) ELSE 0]]]
  /\ UNCHANGED otherVars
  /\ UNCHANGED << currentScreen, navigationData, inst, riderStatus, details,
                  orderDetails, timers, timeouts, inflight, last, fails >>

\* POST /orders/:id/cancel as the order service applies it.
Cancelled(b) == [b EXCEPT !.status = "cancelled", !.updated_at = b.updated_at + 1]

\* Someone other than this client cancels the order.
BackendCancel(o) ==
  /\ Cancellable(backend[o].status)
  /\ backend' = [backend EXCEPT ![o] = Cancelled(backend[o])]
  /\ UNCHANGED otherVars
  /\ UNCHANGED << currentScreen, navigationData, inst, riderStatus, details,
                  orderDetails, timers, timeouts, inflight, last, fails >>

\* --------------------------------------------------------- screens, requests
\* No response was handled since the screen was mounted.
NoResponse == [op |-> "none", repeat |-> FALSE, late |-> FALSE, stale |-> FALSE]

Tracked == {"DeliveryCreated", "ActiveDeliveryDetails", "OrderDetails"}
Screens == {"Dashboard", "CreateDelivery", "ActiveDeliveries", "DeliveryHistory"}
             \cup Tracked

\* useState initial values of DeliveryCreatedScreen.
RiderStatusInit == [status |-> "pending_rider_assignment", rider |-> FALSE,
                    last_updated |-> 0, isLoadingRider |-> TRUE]

\* useState initial values of ActiveDeliveryDetailsScreen.
DetailsInit == [orderData |-> NoOrder, timeline |-> << >>,
                riderLocation |-> 0, isRiderLocationActive |-> FALSE,
                estimatedTimeToDelivery |-> 0, isLoading |-> TRUE]

\* useState initial values of OrderDetailsScreen.
OrderDetailsInit == [order |-> NoOrder, timing |-> NoTimestamps,
                     chainOfCustody |-> << >>, loading |-> TRUE,
                     refreshing |-> FALSE]

\* A request of component instance i for order o; the order service reads
\* the order as it is in b when the request is sent.
Request(kind, i, o, b) == [kind |-> kind, inst |-> i, order |-> o, snap |-> b[o]]

\* The component instance i is the one on screen.
Mounted(i) == i = inst /\ currentScreen \in Tracked

\* The requests in flight are a bag: responses arrive in any order.
Send(q, r) == q (+) SetToBag({r})
Receive(q, r) == q (-) SetToBag({r})
InFlight == BagToSet(inflight)

\* The effect cleanup "return () => clearInterval(interval)" of instance i.
clearIntervalLeak(T, i) == T
clearInterval(T, i) == { t \in T : t.inst # i }

\* DeliveryCreatedScreen's mount effect: pollRiderStatus() once, then every 5 s.
DeliveryCreatedMountTwice(T, i, o) ==
  T \cup {[scr |-> "DeliveryCreated", order |-> o, inst |-> i, delay |-> d] :
           d \in {PollIntervalMs, 2 * PollIntervalMs}}
DeliveryCreatedMount(T, i, o) ==
  T \cup {[scr |-> "DeliveryCreated", order |-> o, inst |-> i, delay |-> PollIntervalMs]}

\* The request the mount effect of screen `to` sends.
MountRequest(to, i, data, b) ==
  CASE to = "DeliveryCreated" -> Request("pollRiderStatus", i, data.orderData, b)
    [] to = "ActiveDeliveryDetails" -> Request("loadOrderData", i, data.deliveryId, b)
    [] to = "OrderDetails" -> Request("loadOrderDetails", i, data.orderId, b)

\* navigate(screen, data): the mounted screen is unmounted (its effect cleanup
\* runs, its state is gone) and `to` is mounted (its mount effect runs).
navigate(to, data, b) ==
  /\ currentScreen' = to
  /\ navigationData' = data
  /\ riderStatus' = RiderStatusInit
  /\ details' = DetailsInit
  /\ orderDetails' = OrderDetailsInit
  /\ fails' = 0
  /\ IF to \in Tracked
       THEN /\ inst < MaxMounts
            /\ BagCardinality(inflight) < MaxInflight
            /\ inst' = inst + 1
            /\ inflight' = Send(inflight, MountRequest(to, inst + 1, data, b))
            /\ timers' = IF to = "DeliveryCreated"
                           THEN DeliveryCreatedMount(clearInterval(timers, inst),
                                                     inst + 1, data.orderData)
                           ELSE clearInterval(timers, inst)
       ELSE /\ inst' = inst
            /\ inflight' = inflight
            /\ timers' = clearInterval(timers, inst)
  /\ last' = NoResponse
  /\ UNCHANGED << timeouts, otherVars >>

\* Tab bar, back and close buttons: to a screen that observes no order.
onTabPress(to) ==
  /\ to \in {"Dashboard", "ActiveDeliveries", "DeliveryHistory"}
  /\ to # currentScreen
  /\ \/ currentScreen \in {"ActiveDeliveryDetails", "OrderDetails",
                          "ActiveDeliveries", "DeliveryHistory"}
     \/ currentScreen = "Dashboard"
     \/ currentScreen \in {"DeliveryCreated", "CreateDelivery"} /\ to = "Dashboard"
  /\ navigate(to, navigationData, backend)
  /\ UNCHANGED backend

\* Dashboard: onCreateDelivery.
openCreateDelivery ==
  /\ currentScreen = "Dashboard"
  /\ navigate("CreateDelivery", navigationData, backend)
  /\ UNCHANGED backend

\* CreateDeliveryScreen.handleCreateDelivery, createOrder answered with
\* success: the new order o exists and DeliveryCreated is shown for it.
handleCreateDelivery(o) ==
  /\ currentScreen = "CreateDelivery"
  /\ backend[o].status = "none"
  /\ backend' = [backend EXCEPT ![o] = NewOrder]
  /\ navigate("DeliveryCreated", [navigationData EXCEPT !.orderData = o],
              [backend EXCEPT ![o] = NewOrder])

\* DeliveryCreated: onTrackDelivery.
onTrackDelivery ==
  /\ currentScreen = "DeliveryCreated"
  /\ navigate("ActiveDeliveryDetails",
              [navigationData EXCEPT !.deliveryId = navigationData.orderData], backend)
  /\ UNCHANGED backend

\* cancelOrder was sent and answered without success: the error alert is shown.
CancelRefused == [op |-> "cancelRefused", repeat |-> FALSE, late |-> FALSE,
                  stale |-> FALSE]

\* DeliveryCreatedScreen.handleCancelDelivery, confirmed in the alert.  The
\* button is shown whatever the status; on response.success the container
\* navigates to the Dashboard, otherwise the screen stays.
handleCancelDelivery ==
  /\ currentScreen = "DeliveryCreated"
  /\ LET o == navigationData.orderData
     IN IF Cancellable(backend[o].status)
          THEN /\ backend' = [backend EXCEPT ![o] = Cancelled(backend[o])]
               /\ navigate("Dashboard", navigationData, backend)
          ELSE /\ last' = CancelRefused
               /\ UNCHANGED << backend, currentScreen, navigationData, inst,
                               riderStatus, details, orderDetails, timers,
                               timeouts, inflight, fails, otherVars >>

\* ActiveDeliveries: onDeliveryPress on a listed order.  The list was loaded
\* earlier, so the order was active then and may have moved on since.
onDeliveryPress(o) ==
  /\ currentScreen = "ActiveDeliveries"
  /\ backend[o].status \in Statuses
  /\ navigate("ActiveDeliveryDetails", [navigationData EXCEPT !.deliveryId = o], backend)
  /\ UNCHANGED backend

\* DeliveryHistory: onDeliveryPress on a listed (delivered or cancelled) order.
onHistoryPress(o) ==
  /\ currentScreen = "DeliveryHistory"
  /\ backend[o].status \in {"delivered", "cancelled"}
  /\ navigate("OrderDetails", [navigationData EXCEPT !.orderId = o], backend)
  /\ UNCHANGED backend


\* ------------------------------------------------------------ the timeline
\* formatTime: 0 stands for the label 'Pending', an instant for its
\* en-US hour:minute rendering.
formatTime(timestamp) == IF timestamp = 0 THEN 0 ELSE timestamp

StepStatus(stamp, isCurrent) ==
  IF stamp # 0 THEN "completed" ELSE IF isCurrent THEN "current" ELSE "pending"

\* timelineSteps as first built (the array literal).
timelineSteps(order) ==
  << [orderStatus |-> "created", time |-> formatTime(1), status |-> "completed"],
     [orderStatus |-> "assigned", time |-> formatTime(order.ts["assigned_at"]),
      status |-> StepStatus(order.ts["assigned_at"], order.status = "pending_rider_assignment")],
     [orderStatus |-> "pickup_started", time |-> formatTime(order.ts["pickup_started_at"]),
      status |-> StepStatus(order.ts["pickup_started_at"], order.status = "pickup_started")],
     [orderStatus |-> "picked_up", time |-> formatTime(order.ts["picked_up_at"]),
      status |-> StepStatus(order.ts["picked_up_at"], order.status = "picked_up")],
     [orderStatus |-> "delivered", time |-> formatTime(order.ts["delivered_at"]),
      status |-> StepStatus(order.ts["delivered_at"],
                            order.status \in {"delivery_started", "delivered"})] >>

\* The switch inside timelineSteps.find: the orderStatus of the step that is
\* made 'current' for an order status ("" when none is).
currentStepForShifted(status) ==
  CASE status = "pending_rider_assignment" -> "pickup_started"
    [] status = "assigned" -> "picked_up"
    [] status = "pickup_started" -> "picked_up"
    [] status = "picked_up" -> "delivered"
    [] status = "delivery_started" -> "delivered"
    [] OTHER -> ""
currentStepFor(status) ==
  CASE status = "pending_rider_assignment" -> "assigned"
    [] status = "assigned" -> "pickup_started"
    [] status = "pickup_started" -> "pickup_started"
    [] status = "picked_up" -> "picked_up"
    [] status = "delivery_started" -> "delivered"
    [] OTHER -> ""

buildTimelineFromOrderDefault(order) ==
  LET steps == timelineSteps(order)
  IN [k \in 1..5 |->
        IF \/ steps[k].orderStatus = currentStepFor(order.status)
           \/ currentStepFor(order.status) = "" /\ k = 1
          THEN [steps[k] EXCEPT !.status = "current"]
          ELSE steps[k]]
buildTimelineFromOrder(order) ==
  LET steps == timelineSteps(order)
  IN [k \in 1..5 |->
        IF steps[k].orderStatus = currentStepFor(order.status)
          THEN [steps[k] EXCEPT !.status = "current"]
          ELSE steps[k]]

\* ------------------------------------------------ DeliveryCreatedScreen poll
Min(a, b) == IF a < b THEN a ELSE b

\* What is recorded of a handled response: its outcome, and whether the
\* mounted screen already held exactly what the response carried.
Handled(outcome, repeat) ==
  [op |-> outcome, repeat |-> repeat, late |-> FALSE, stale |-> FALSE]

\* A tracking response with a valid rider position was handled; stale: its
\* rider_location.timestamp is older than one polling interval.
HandledSample(repeat, stale) ==
  [op |-> "ok", repeat |-> repeat, late |-> FALSE, stale |-> stale]

\* A tracking response without a rider position (or with latitude or
\* longitude 0) was handled.
HandledNoPosition ==
  [op |-> "noposition", repeat |-> FALSE, late |-> FALSE, stale |-> FALSE]

\* The continuation of a request ran although the instance that sent it was
\* unmounted: its state setters are called and change nothing.
HandledLate(outcome) ==
  [op |-> outcome, repeat |-> FALSE, late |-> TRUE, stale |-> FALSE]

\* riderStatus holds what the order `order` carries.
HoldsRiderStatus(order) ==
  /\ riderStatus.status = order.status
  /\ riderStatus.rider = order.rider
  /\ riderStatus.last_updated = order.updated_at

\* setRiderStatus({status, rider, last_updated}) with setIsLoadingRider(false).
setRiderStatusOnChange(prev, order) ==
  [status |-> order.status,
   rider |-> order.rider /\ prev.last_updated # order.updated_at,
   last_updated |-> order.updated_at, isLoadingRider |-> FALSE]
setRiderStatusNoRider(prev, order) ==
  [status |-> order.status, rider |-> FALSE,
   last_updated |-> order.updated_at, isLoadingRider |-> FALSE]
setRiderStatus(prev, order) ==
  [status |-> order.status, rider |-> order.rider,
   last_updated |-> order.updated_at, isLoadingRider |-> FALSE]

\* The catch block of pollRiderStatus.
pollRiderStatusCatchReset(prev) == RiderStatusInit
pollRiderStatusCatch(prev) == [prev EXCEPT !.isLoadingRider = FALSE]

\* An interval fires: the polling function of the instance that set it sends
\* its request (pollRiderStatus or pollRiderLocation).
Tick(t) ==
  /\ t \in timers
  /\ BagCardinality(inflight) < MaxInflight
  /\ inflight' = Send(inflight,
                   Request(IF t.scr = "DeliveryCreated" THEN "pollRiderStatus"
                                                          ELSE "pollRiderLocation",
                           t.inst, t.order, backend))
  /\ UNCHANGED otherVars
  /\ UNCHANGED << backend, currentScreen, navigationData, inst, riderStatus,
                  details, orderDetails, timers, timeouts, last, fails >>

\* pollRiderStatus after its await: the response is a success with the order,
\* a response without success/data, or the request throws.  The state setters
\* of an instance that is no longer mounted change nothing.
pollRiderStatusResponse(r, outcome) ==
  /\ r \in InFlight
  /\ r.kind = "pollRiderStatus"
  /\ outcome \in {"ok", "nodata", "throw"}
  /\ inflight' = Receive(inflight, r)
  /\ LET mounted == Mounted(r.inst)
     IN /\ last' = IF mounted
                     THEN Handled(outcome, outcome = "ok" /\ HoldsRiderStatus(r.snap))
                     ELSE HandledLate(outcome)
        /\ IF mounted
             THEN /\ riderStatus' =
                       CASE outcome = "ok" -> setRiderStatus(riderStatus, r.snap)
                         [] outcome = "throw" -> pollRiderStatusCatch(riderStatus)
                         [] OTHER -> riderStatus
                  /\ fails' = IF outcome = "ok" THEN 0 ELSE Min(fails + 1, MaxFails)
             ELSE UNCHANGED << riderStatus, fails >>
  /\ UNCHANGED otherVars
  /\ UNCHANGED << backend, currentScreen, navigationData, inst, details,
                  orderDetails, timers, timeouts >>


\* ------------------------------------------- ActiveDeliveryDetailsScreen
\* loadOrderData's success branch: setOrderData, setLocationState,
\* buildTimelineFromOrder + setTimeline; setIsLoading(false) in finally.
\* eta is order.timing.estimated_delivery_time (0: absent, shown as 'N/A').
setOrderData(prev, order, eta) ==
  [prev EXCEPT !.orderData = order,
               !.timeline = buildTimelineFromOrder(order),
               !.isRiderLocationActive = order.rider,
               !.estimatedTimeToDelivery = eta,
               !.isLoading = FALSE]

\* The effect on [orderData?.rider_id, deliveryId]: with a rider known it
\* sets the 30 s interval and polls once at once.
LocationPollEffectAlways(T, i, o, rider) ==
  T \cup {[scr |-> "ActiveDeliveryDetails", order |-> o, inst |-> i,
           delay |-> LocationIntervalMs]}
LocationPollEffect(T, i, o, rider) ==
  IF rider
    THEN T \cup {[scr |-> "ActiveDeliveryDetails", order |-> o, inst |-> i,
                  delay |-> LocationIntervalMs]}
    ELSE T

\* A setTimeout handle: the instance whose handler set it, and the handler.
Timeout(i, by) == [inst |-> i, by |-> by]

\* loadOrderData after its await.  hasCoords: the order carries pickup and
\* delivery coordinates (the map is then fitted after 500 ms).
loadOrderDataResponse(r, outcome) ==
  /\ r \in InFlight
  /\ r.kind = "loadOrderData"
  /\ outcome \in {"ok", "nodata", "throw"}
  /\ LET rest == Receive(inflight, r)
     IN /\ last' = IF Mounted(r.inst) THEN Handled(outcome, FALSE)
                                       ELSE HandledLate(outcome)
        /\ IF Mounted(r.inst) /\ outcome = "ok"
             THEN \E eta \in 0..MaxEta, hasCoords \in BOOLEAN :
                    /\ details' = setOrderData(details, r.snap, eta)
                    /\ timeouts' = IF hasCoords
                                     THEN timeouts \cup {Timeout(r.inst, "loadOrderData")}
                                     ELSE timeouts
                    /\ timers' = LocationPollEffect(timers, r.inst, r.order, r.snap.rider)
                    /\ inflight' = IF r.snap.rider
                                     THEN Send(rest, Request("pollRiderLocation", r.inst,
                                                             r.order, backend))
                                     ELSE rest
             ELSE /\ details' = IF Mounted(r.inst)
                                  THEN [details EXCEPT !.isLoading = FALSE]
                                  ELSE details
                  /\ inflight' = rest
                  /\ UNCHANGED << timers, timeouts >>
  /\ UNCHANGED otherVars
  /\ UNCHANGED << backend, currentScreen, navigationData, inst, riderStatus,
                  orderDetails, fails >>

\* setLocationState in pollRiderLocation, for a valid position.
setLocationState(prev, loc, eta) ==
  [prev EXCEPT !.riderLocation = loc, !.isRiderLocationActive = TRUE,
               !.estimatedTimeToDelivery = eta]

\* The catch block of pollRiderLocation: console.error only.
pollRiderLocationCatch(prev) == prev

\* pollRiderLocation after its await of getOrderTracking, which throws unless
\* the response has success and an order.  loc is the rider's position in the
\* response (0: none, or latitude/longitude 0), eta its estimated_arrival
\* (0: the 'N/A' that getOrderTracking substitutes).
pollRiderLocationResponse(r, outcome) ==
  /\ r \in InFlight
  /\ r.kind = "pollRiderLocation"
  /\ outcome \in {"ok", "throw"}
  /\ inflight' = Receive(inflight, r)
  /\ LET mounted == Mounted(r.inst)
     IN /\ IF mounted
             THEN IF outcome = "ok"
                    THEN \E loc \in 0..MaxLoc, eta \in 0..MaxEta, stale \in BOOLEAN :
                           /\ last' = IF loc = 0
                                        THEN HandledNoPosition
                                        ELSE HandledSample(
                                               /\ details.riderLocation = loc
                                               /\ details.estimatedTimeToDelivery = eta,
                                               stale)
                           /\ details' = IF loc # 0
                                           THEN setLocationState(details, loc, eta)
                                           ELSE details
                           /\ timeouts' = IF loc # 0
                                            THEN timeouts \cup
                                                   {Timeout(r.inst, "pollRiderLocation")}
                                            ELSE timeouts
                           /\ fails' = 0
                    ELSE /\ last' = Handled(outcome, FALSE)
                         /\ details' = pollRiderLocationCatch(details)
                         /\ fails' = Min(fails + 1, MaxFails)
                         /\ UNCHANGED timeouts
             ELSE /\ last' = HandledLate(outcome)
                  /\ UNCHANGED << details, timeouts, fails >>
  /\ UNCHANGED otherVars
  /\ UNCHANGED << backend, currentScreen, navigationData, inst, riderStatus,
                  orderDetails, timers >>

\* A pending setTimeout fires: mapRef.current?.fitToCoordinates(...).
TimeoutFires(h) ==
  /\ h \in timeouts
  /\ timeouts' = timeouts \ {h}
  /\ UNCHANGED otherVars
  /\ UNCHANGED << backend, currentScreen, navigationData, inst, riderStatus,
                  details, orderDetails, timers, inflight, last, fails >>

\* ------------------------------------------------------- OrderDetailsScreen
\* loadOrderDetails' success branch: setOrderDetails (status, timing, ...),
\* setChainOfCustody([]) when the order has a QR id; setLoading(false).
setOrderDetailsFirstOnly(prev, order, hasQr) ==
  [prev EXCEPT !.order = order,
               !.timing = IF prev.order = NoOrder THEN order.ts ELSE NoTimestamps,
               !.chainOfCustody = IF hasQr THEN << >> ELSE prev.chainOfCustody,
               !.loading = FALSE]
setOrderDetails(prev, order, hasQr) ==
  [prev EXCEPT !.order = order, !.timing = order.ts,
               !.chainOfCustody = IF hasQr THEN << >> ELSE prev.chainOfCustody,
               !.loading = FALSE]

\* Pull to refresh: setRefreshing(true), then loadOrderDetails again (which
\* starts with setLoading(true)).  The RefreshControl is rendered only while
\* loading is false.
onRefresh ==
  /\ currentScreen = "OrderDetails"
  /\ ~orderDetails.loading
  /\ BagCardinality(inflight) < MaxInflight
  /\ orderDetails' = [orderDetails EXCEPT !.refreshing = TRUE, !.loading = TRUE]
  /\ inflight' = Send(inflight, Request("onRefresh", inst, navigationData.orderId, backend))
  /\ UNCHANGED otherVars
  /\ UNCHANGED << backend, currentScreen, navigationData, inst, riderStatus,
                  details, timers, timeouts, last, fails >>

\* loadOrderDetails after its await (called by the mount effect or by
\* onRefresh, which then clears refreshing).
loadOrderDetailsResponse(r, outcome) ==
  /\ r \in InFlight
  /\ r.kind \in {"loadOrderDetails", "onRefresh"}
  /\ outcome \in {"ok", "nodata", "throw"}
  /\ LET done(od) == IF r.kind = "onRefresh" THEN [od EXCEPT !.refreshing = FALSE] ELSE od
     IN /\ inflight' = Receive(inflight, r)
        /\ IF Mounted(r.inst)
             THEN IF outcome = "ok"
                    THEN \E hasQr \in BOOLEAN :
                           /\ last' = Handled(outcome, orderDetails.order = r.snap)
                           /\ orderDetails' =
                                done(setOrderDetails(orderDetails, r.snap, hasQr))
                    ELSE /\ last' = Handled(outcome, FALSE)
                         /\ orderDetails' = done([orderDetails EXCEPT !.loading = FALSE])
             ELSE /\ last' = HandledLate(outcome)
                  /\ UNCHANGED orderDetails
  /\ UNCHANGED otherVars
  /\ UNCHANGED << backend, currentScreen, navigationData, inst, riderStatus,
                  details, timers, timeouts, fails >>

\* ------------------------------------ ActiveDeliveryDetailsScreen: the map
\* Coordinates are in units of 0.0001 degree; the arithmetic below is exact
\* where the code's is in double precision.
DefaultCenterLat == 69147    \* locationState.collectionCenter.latitude 6.9147
DefaultCenterLng == 798731   \* locationState.collectionCenter.longitude 79.8731
DefaultHospitalLat == 69236  \* locationState.hospital.latitude 6.9236
DefaultHospitalLng == 798581 \* locationState.hospital.longitude 79.8581
MinSpan == 100               \* Math.max(0.01, ...)
PaddingTwice == 3            \* twice the padding factor 1.5

MaxCoord == 1     \* coordinates in a response lie up to MaxCoord grid steps off
GridStep == 40    \* one grid step: 0.004 degree

\* The latitudes and longitudes a response carries: 0 is a missing (or zero)
\* coordinate, the others lie on a grid around the collection center's default.
Latitudes == {0} \cup { DefaultCenterLat + k * GridStep : k \in (-MaxCoord)..MaxCoord }
Longitudes == {0} \cup { DefaultCenterLng + k * GridStep : k \in (-MaxCoord)..MaxCoord }

Coordinate(lat, lng) == [latitude |-> lat, longitude |-> lng]
NoCoordinate == Coordinate(0, 0)

\* useState initial value of locationState (riderLocation: undefined).
LocationStateInit ==
  [collectionCenter |-> Coordinate(DefaultCenterLat, DefaultCenterLng),
   hospital |-> Coordinate(DefaultHospitalLat, DefaultHospitalLng),
   riderLocation |-> NoCoordinate]

\* loadOrderData: setLocationState with the order's pickup and delivery
\* coordinates; a missing or zero coordinate keeps the previous one.
setOrderCoordinates(prev, pickup, delivery) ==
  [prev EXCEPT
     !.collectionCenter =
        Coordinate(IF pickup.latitude # 0 THEN pickup.latitude
                                          ELSE prev.collectionCenter.latitude,
                   IF pickup.longitude # 0 THEN pickup.longitude
                                           ELSE prev.collectionCenter.longitude),
     !.hospital =
        Coordinate(IF delivery.latitude # 0 THEN delivery.latitude
                                            ELSE prev.hospital.latitude,
                   IF delivery.longitude # 0 THEN delivery.longitude
                                             ELSE prev.hospital.longitude)]

\* pollRiderLocation: "if (riderLat && riderLng)" sets riderLocation.
setRiderCoordinate(prev, lat, lng) ==
  IF lat # 0 /\ lng # 0 THEN [prev EXCEPT !.riderLocation = Coordinate(lat, lng)]
                        ELSE prev

\* renderMap: allCoordinates.
allCoordinates(ls) ==
  {ls.collectionCenter, ls.hospital}
    \cup (IF ls.riderLocation # NoCoordinate THEN {ls.riderLocation} ELSE {})

SetMin(S) == CHOOSE x \in S : \A y \in S : x <= y
SetMax(S) == CHOOSE x \in S : \A y \in S : x >= y
Max(a, b) == IF a > b THEN a ELSE b

\* Math.max(0.01, extent * 1.5), in half units.
spanTwiceUnclamped(extent) == PaddingTwice * extent
spanTwice(extent) == Max(2 * MinSpan, PaddingTwice * extent)

\* renderMap: region.  Its four fields are in half units (0.00005 degree), so
\* that the midpoint and the padded extent are integers: latitude is
\* (minLat + maxLat) / 2, latitudeDelta is Math.max(0.01, (maxLat - minLat) * 1.5).
renderMapRegion(ls) ==
  LET lats == { c.latitude : c \in allCoordinates(ls) }
      lngs == { c.longitude : c \in allCoordinates(ls) }
      minLat == SetMin(lats)
      maxLat == SetMax(lats)
      minLng == SetMin(lngs)
      maxLng == SetMax(lngs)
  IN [latitude |-> minLat + maxLat,
      longitude |-> minLng + maxLng,
      latitudeDelta |-> spanTwice(maxLat - minLat),
      longitudeDelta |-> spanTwice(maxLng - minLng)]

\* The order loaded by loadOrderData carries these coordinates.
MapLoadOrder(pickup, delivery) ==
  /\ locationState' = setOrderCoordinates(locationState, pickup, delivery)
  /\ UNCHANGED << currentScreen, trackingVars, storage, auth, api, otp, lists, form >>

\* A tracking response carries this rider position.
MapRiderSample(lat, lng) ==
  /\ locationState' = setRiderCoordinate(locationState, lat, lng)
  /\ UNCHANGED << currentScreen, trackingVars, storage, auth, api, otp, lists, form >>

\* ------------------------------------------- the session: tokens, sign-out
\* AsyncStorage holds the tokens; useAuthStore holds isAuthenticated; the
\* ApiClient's response interceptor refreshes the access token on a 401.  The
\* profile request of checkAuthAndNavigate is an input (the center status it
\* answers with).  Not modelled: the rehydration of the store from
\* 'auth-storage', which initialize() overwrites with what getAuthState reads.
MaxRequests == 2   \* requests sent through the ApiClient in one run

Unauthorized == 401  \* error.response?.status === 401

NoTokens == [access_token |-> FALSE, refresh_token |-> FALSE, user_data |-> FALSE]
\* authService.storeAuthData.
StoredAuthData == [access_token |-> TRUE, refresh_token |-> TRUE, user_data |-> TRUE]

\* useAuthStore's initial state; signedOut is history: the user pressed Sign
\* Out and has not signed in since.
AuthInit == [isAuthenticated |-> FALSE, isLoading |-> FALSE, signedOut |-> FALSE]

\* A request config before it is sent.  retried is originalRequest._retry,
\* sends counts the times it went to the server, refreshes the token refreshes
\* made on its behalf.
NewRequest == [phase |-> "new", retried |-> FALSE, sends |-> 0, refreshes |-> 0]
ApiInit == [i \in 1..MaxRequests |-> NewRequest]

\* ApiClient.clearTokens.
clearTokens(st) == NoTokens

\* authService.getAuthState: isAuthenticated is !!(token && user).
getAuthState(st) == st.access_token /\ st.user_data

\* The condition of the interceptor's refresh branch.
shouldRefreshAlways(status, request) == status = Unauthorized
shouldRefresh(status, request) == status = Unauthorized /\ ~request.retried

\* The app process starts: the store is in its initial state, the container
\* shows Welcome and calls initialize() (set isLoading).  Requests of the
\* previous process are gone; AsyncStorage is kept.
appStart ==
  /\ currentScreen' = "Welcome"
  /\ auth' = [auth EXCEPT !.isAuthenticated = FALSE, !.isLoading = TRUE]
  /\ api' = ApiInit
  /\ UNCHANGED << trackingVars, locationState, storage, otp, lists, form >>

\* OTPVerificationScreen.handleVerify answered with success for a complete
\* profile: verifyOTP stored the tokens, setAuth, onLoginSuccess: initialize().
handleVerify ==
  /\ currentScreen = "Welcome"
  /\ ~auth.isLoading
  /\ storage' = StoredAuthData
  /\ auth' = [isAuthenticated |-> TRUE, isLoading |-> TRUE, signedOut |-> FALSE]
  /\ UNCHANGED << currentScreen, trackingVars, locationState, api, otp, lists, form >>

\* The screen checkAuthAndNavigate chooses for what the profile request
\* answered: a center status, or a failure.
screenFor(centerStatus) ==
  CASE centerStatus \in {"approved", "active"} -> "Dashboard"
    [] centerStatus \in {"pending_hospital_approval", "pending_hq_approval"}
         -> "ApprovalInProgress"
    [] OTHER -> "Welcome"

\* initialize() after getAuthState, then the effect on [isAuthenticated,
\* isLoading]: checkAuthAndNavigate.
initialize(centerStatus) ==
  /\ auth.isLoading
  /\ auth' = [auth EXCEPT !.isAuthenticated = getAuthState(storage),
                          !.isLoading = FALSE]
  /\ currentScreen' = IF getAuthState(storage) THEN screenFor(centerStatus)
                                               ELSE "Welcome"
  /\ UNCHANGED << trackingVars, locationState, storage, api, otp, lists, form >>

\* handleTabPress('profile') on the Dashboard, and the profile's onBack.
onProfilePress ==
  /\ currentScreen \in {"Dashboard", "CenterProfile"}
  /\ ~auth.isLoading
  /\ currentScreen' = IF currentScreen = "Dashboard" THEN "CenterProfile"
                                                     ELSE "Dashboard"
  /\ UNCHANGED << trackingVars, otherVars >>

\* CenterProfileScreen's Sign Out button: onSignOut is navigate('Welcome').
onSignOut ==
  /\ currentScreen = "CenterProfile"
  /\ ~auth.isLoading
  /\ currentScreen' = "Welcome"
  /\ auth' = [auth EXCEPT !.signedOut = TRUE]
  /\ UNCHANGED << trackingVars, locationState, storage, api, otp, lists, form >>

\* A screen of the signed-in app sends request i through the ApiClient.
apiSend(i) ==
  /\ currentScreen \in {"Dashboard", "CenterProfile"}
  /\ api[i].phase = "new"
  /\ api' = [api EXCEPT ![i].phase = "sent", ![i].sends = 1]
  /\ UNCHANGED << currentScreen, trackingVars, locationState, storage, auth,
                  otp, lists, form >>

\* The response interceptor.  A 2xx resolves the request.  An error that is
\* a 401 for a request not yet retried marks it and reads the refresh token:
\* with one it calls refreshAccessToken, without one the error is rejected.
\* Every other error is rejected.
apiResponse(i, status) ==
  /\ api[i].phase = "sent"
  /\ api' = [api EXCEPT ![i] =
       IF status = 200 THEN [@ EXCEPT !.phase = "resolved"]
       ELSE IF shouldRefresh(status, @)
              THEN IF storage.refresh_token
                     THEN [@ EXCEPT !.retried = TRUE, !.phase = "refreshing",
                                    !.refreshes = @ + 1]
                     ELSE [@ EXCEPT !.retried = TRUE, !.phase = "rejected"]
              ELSE [@ EXCEPT !.phase = "rejected"]]
  /\ UNCHANGED << currentScreen, trackingVars, locationState, storage, auth,
                  otp, lists, form >>

\* refreshAccessToken answered.  success: the new access token is stored and
\* the original request is sent again; a response without success: the
\* original error is rejected; it throws: clearTokens, then rejected.
refreshResponse(i, outcome) ==
  /\ api[i].phase = "refreshing"
  /\ outcome \in {"success", "nosuccess", "throw"}
  /\ api' = [api EXCEPT ![i] =
       IF outcome = "success"
         THEN [@ EXCEPT !.phase = "sent", !.sends = @ + 1]
         ELSE [@ EXCEPT !.phase = "rejected"]]
  /\ storage' = CASE outcome = "success" -> [storage EXCEPT !.access_token = TRUE]
                  [] outcome = "throw" -> clearTokens(storage)
                  [] OTHER -> storage
  /\ UNCHANGED << currentScreen, trackingVars, locationState, auth, otp, lists, form >>

\* ---------------------------------------------------- OTPVerificationScreen
CountdownSeconds == 60   \* useState(60), setTimeLeft(60)
OtpLength == 6           \* the six digit boxes

\* useState initial values; digits is the number of boxes filled, timer the
\* pending setTimeout of the countdown effect, event the last handler that ran
\* ("refused": handleResend returned at its guard).
OtpInit == [timeLeft |-> CountdownSeconds, canResend |-> FALSE, digits |-> 0,
            timer |-> FALSE, event |-> "none"]

\* The countdown effect on [timeLeft], run after the render of o: with time
\* left it sets the one-second timeout, otherwise setCanResend(true).
countdownEffect(o) ==
  IF o.timeLeft > 0 THEN [o EXCEPT !.timer = TRUE]
                    ELSE [o EXCEPT !.timer = FALSE, !.canResend = TRUE]

\* The state setters of handleResend past its guard.
resetCountdownKeepFlag(o) == [o EXCEPT !.timeLeft = CountdownSeconds, !.digits = 0]
resetCountdown(o) ==
  [o EXCEPT !.timeLeft = CountdownSeconds, !.canResend = FALSE, !.digits = 0]

\* PhoneEntry's onNext: navigate('OTPVerification'); the screen mounts and its
\* effect runs.
otpMount ==
  /\ currentScreen = "PhoneEntry"
  /\ currentScreen' = "OTPVerification"
  /\ otp' = countdownEffect(OtpInit)
  /\ UNCHANGED << trackingVars, locationState, storage, auth, api, lists, form >>

\* handleBack: navigate('PhoneEntry'); the effect cleanup clears the timeout.
otpBack ==
  /\ currentScreen = "OTPVerification"
  /\ currentScreen' = "PhoneEntry"
  /\ otp' = OtpInit
  /\ UNCHANGED << trackingVars, locationState, storage, auth, api, lists, form >>

\* The timeout fires: setTimeLeft(timeLeft - 1), render, effect.
countdownTimeout ==
  /\ currentScreen = "OTPVerification"
  /\ otp.timer
  /\ otp' = countdownEffect([otp EXCEPT !.timeLeft = @ - 1, !.timer = FALSE,
                                        !.event = "timeout"])
  /\ UNCHANGED << currentScreen, trackingVars, locationState, storage, auth,
                  api, lists, form >>

\* handleOtpChange: a box is filled (d = 1) or emptied (d = -1).  Not
\* modelled: handleVerify, which the sixth digit starts.
handleOtpChange(d) ==
  /\ currentScreen = "OTPVerification"
  /\ otp.digits + d \in 0..OtpLength
  /\ otp' = [otp EXCEPT !.digits = @ + d, !.event = "change"]
  /\ UNCHANGED << currentScreen, trackingVars, locationState, storage, auth,
                  api, lists, form >>

\* handleResend: "if (!canResend) return", else the setters, then the effect
\* on the changed timeLeft.
handleResend ==
  /\ currentScreen = "OTPVerification"
  /\ otp' = IF ~otp.canResend
              THEN [otp EXCEPT !.event = "refused"]
              ELSE countdownEffect([resetCountdown(otp) EXCEPT !.event = "resend"])
  /\ UNCHANGED << currentScreen, trackingVars, locationState, storage, auth,
                  api, lists, form >>

\* ------------------------------- ActiveDeliveriesScreen, DeliveryHistoryScreen
MaxListed == 2   \* orders in a response of GET /orders/my

\* The statuses an order in the list can carry: the lifecycle, cancelled, and
\* one of the handover statuses of ORDER_STATUSES; "absent": not in the list.
ListStatuses == Statuses \cup {"handover_pending", "absent"}

\* The responses of getMyOrders: each listed order id with its one status.
OrderLists == [1..MaxListed -> ListStatuses]

\* The orders of a list, as {id, status}.
Listed(orders) ==
  { [id |-> i, status |-> orders[i]] : i \in { j \in 1..MaxListed : orders[j] # "absent" } }

\* loadActiveDeliveries: the filter on order.status.
activeOrders(orders) ==
  { o \in Listed(orders) :
      o.status \in {"pending_rider_assignment", "assigned", "pickup_started",
                    "picked_up", "delivery_started"} }

\* loadDeliveryHistory: the filter on order.status.
historyOrdersWide(orders) ==
  { o \in Listed(orders) : o.status \in {"delivery_started", "delivered", "cancelled"} }
historyOrders(orders) ==
  { o \in Listed(orders) : o.status \in {"delivered", "cancelled"} }

\* The two screens before their first response (useState([])); response is
\* the last list a load received.
ListsInit == [response |-> [i \in 1..MaxListed |-> "absent"],
              deliveries |-> {}, deliveryHistory |-> {}]

\* handleTabPress('deliveries' | 'history'): the other list screen is
\* unmounted, its state is gone.
listTabPress(to) ==
  /\ to \in {"ActiveDeliveries", "DeliveryHistory"}
  /\ to # currentScreen
  /\ currentScreen' = to
  /\ lists' = ListsInit
  /\ UNCHANGED << trackingVars, locationState, storage, auth, api, otp, form >>

\* loadActiveDeliveries after its await, for a response with success.
loadActiveDeliveries(orders) ==
  /\ currentScreen = "ActiveDeliveries"
  /\ lists' = [lists EXCEPT !.response = orders,
                            !.deliveries = activeOrders(orders)]
  /\ UNCHANGED << currentScreen, trackingVars, locationState, storage, auth,
                  api, otp, form >>

\* loadDeliveryHistory after its await, for a response with success.
loadDeliveryHistory(orders) ==
  /\ currentScreen = "DeliveryHistory"
  /\ lists' = [lists EXCEPT !.response = orders,
                            !.deliveryHistory = historyOrders(orders)]
  /\ UNCHANGED << currentScreen, trackingVars, locationState, storage, auth,
                  api, otp, form >>

\* ----------------------------------------------------- CreateDeliveryScreen
MaxHospitals == 2   \* hospitals getMyHospitals answers with
MaxCount == 2       \* a sample count is not incremented past this

\* The sample types of the run (the screen has six).
SampleIds == {"blood", "urine"}

\* A press of Create Delivery: how it ended and the createOrder calls it made.
NoPress == [outcome |-> "none", orders |-> {}]

\* useState initial values: both features off, no hospital (0), all counts 0.
FormInit == [sample_type_quantity |-> FALSE, hospitals |-> 0,
             centerType |-> "null", selectedHospital |-> 0,
             sampleTypes |-> [t \in SampleIds |-> 0], press |-> NoPress]

\* updateSampleCount: Math.max(0, sample.count + change).
updateSampleCountUnclamped(sampleTypes, sampleId, change) ==
  [sampleTypes EXCEPT ![sampleId] = @ + change]
updateSampleCount(sampleTypes, sampleId, change) ==
  [sampleTypes EXCEPT ![sampleId] = Max(0, @ + change)]

\* loadCenterFeatures after its awaits: the enabled features, the hospital
\* list and the relationship type; one hospital, or a dependent center's
\* first, is selected, an independent center's choice is reset.
loadCenterFeatures(enabled, count, relationship) ==
  /\ currentScreen = "CreateDelivery"
  /\ form.centerType = "null"
  /\ relationship \in {"dependent", "independent"}
  /\ form' = [form EXCEPT
       !.sample_type_quantity = enabled,
       !.hospitals = count,
       !.centerType = relationship,
       !.selectedHospital =
          IF count = 0 THEN @
          ELSE IF count = 1 \/ relationship = "dependent" THEN 1 ELSE 0]
  /\ UNCHANGED << currentScreen, trackingVars, locationState, storage, auth,
                  api, otp, lists >>

\* The hospital modal of an independent center with several hospitals.
selectHospital(h) ==
  /\ currentScreen = "CreateDelivery"
  /\ form.centerType = "independent" /\ form.hospitals > 1
  /\ h \in 1..form.hospitals
  /\ form' = [form EXCEPT !.selectedHospital = h]
  /\ UNCHANGED << currentScreen, trackingVars, locationState, storage, auth,
                  api, otp, lists >>

\* The + and - buttons of a sample type (shown with sample_type_quantity).
\* The - button is disabled at count 0 as of the last render; the handler
\* itself is modelled for every count.
pressSampleCount(sampleId, change) ==
  /\ currentScreen = "CreateDelivery"
  /\ form.sample_type_quantity
  /\ change \in {-1, 1}
  /\ form.sampleTypes[sampleId] + change <= MaxCount
  /\ form' = [form EXCEPT
       !.sampleTypes = updateSampleCount(@, sampleId, change)]
  /\ UNCHANGED << currentScreen, trackingVars, locationState, storage, auth,
                  api, otp, lists >>

\* handleCreateDelivery: ordersToCreate for the form f.
ordersToCreate(f) ==
  IF f.sample_type_quantity
    THEN { [hospital_id |-> f.selectedHospital, sample_type |-> t,
            sample_quantity |-> f.sampleTypes[t]] :
           t \in { u \in SampleIds : f.sampleTypes[u] > 0 } }
    ELSE { [hospital_id |-> f.selectedHospital, sample_type |-> "blood",
            sample_quantity |-> 1] }

\* handleCreateDelivery up to its await: the two guards, then one createOrder
\* call per order to create.
pressCreateDelivery ==
  /\ currentScreen = "CreateDelivery"
  /\ form' = [form EXCEPT !.press =
       IF form.selectedHospital = 0
         THEN [outcome |-> "no hospital", orders |-> {}]
       ELSE IF form.sample_type_quantity /\ ordersToCreate(form) = {}
         THEN [outcome |-> "no sample", orders |-> {}]
       ELSE [outcome |-> "called", orders |-> ordersToCreate(form)]]
  /\ UNCHANGED << currentScreen, trackingVars, locationState, storage, auth,
                  api, otp, lists >>

\* ------------------------------------------------------------ specification
\* The tracking screens before anything happened.
TrackingInit ==
  /\ backend = [o \in Orders |-> NotCreated]
  /\ navigationData = [orderData |-> "", deliveryId |-> "", orderId |-> ""]
  /\ inst = 0
  /\ riderStatus = RiderStatusInit
  /\ details = DetailsInit
  /\ orderDetails = OrderDetailsInit
  /\ timers = {}
  /\ timeouts = {}
  /\ inflight = EmptyBag
  /\ last = NoResponse
  /\ fails = 0

\* The other screens before they are used.
OthersInit ==
  /\ locationState = LocationStateInit
  /\ storage = StoredAuthData
  /\ auth = [AuthInit EXCEPT !.isAuthenticated = TRUE]
  /\ api = ApiInit
  /\ otp = OtpInit
  /\ lists = ListsInit
  /\ form = FormInit

\* The signed-in app on its Dashboard.
Init ==
  /\ currentScreen = "Dashboard"
  /\ TrackingInit
  /\ OthersInit

Outcomes == {"ok", "nodata", "throw"}

Next ==
  \/ \E o \in Orders : BackendAdvance(o)
  \/ \E o \in Orders : BackendCancel(o)
  \/ \E to \in Screens : onTabPress(to)
  \/ openCreateDelivery
  \/ \E o \in Orders : handleCreateDelivery(o)
  \/ onTrackDelivery
  \/ handleCancelDelivery
  \/ \E o \in Orders : onDeliveryPress(o)
  \/ \E o \in Orders : onHistoryPress(o)
  \/ \E t \in timers : Tick(t)
  \/ \E r \in InFlight, outcome \in Outcomes : pollRiderStatusResponse(r, outcome)
  \/ \E r \in InFlight, outcome \in Outcomes : loadOrderDataResponse(r, outcome)
  \/ \E r \in InFlight, outcome \in Outcomes : pollRiderLocationResponse(r, outcome)
  \/ \E r \in InFlight, outcome \in Outcomes : loadOrderDetailsResponse(r, outcome)
  \/ \E h \in timeouts : TimeoutFires(h)
  \/ onRefresh

Spec == Init /\ [][Next]_vars

\* The map of ActiveDeliveryDetails for every pickup, delivery and rider
\* position.
MapNext ==
  \/ \E plat, dlat \in Latitudes, plng, dlng \in Longitudes :
       MapLoadOrder(Coordinate(plat, plng), Coordinate(dlat, dlng))
  \/ \E lat \in Latitudes, lng \in Longitudes : MapRiderSample(lat, lng)

MapSpec == Init /\ [][MapNext]_vars

\* The timeline of ActiveDeliveryDetails for every order: any status with any
\* combination of step timestamps, with or without a rider.
AnyOrder ==
  { [status |-> st, rider |-> r, updated_at |-> 1,
     ts |-> [f \in TsFields |-> IF f \in stamped THEN InstantOf(f) ELSE 0]] :
    st \in Statuses \cup {"handover_pending"}, r \in BOOLEAN, stamped \in SUBSET TsFields }

\* loadOrderData's success branch for the order `order`.
TimelineLoad(order, eta) ==
  /\ details.isLoading
  /\ details' = setOrderData(details, order, eta)
  /\ UNCHANGED << currentScreen, backend, navigationData, inst, riderStatus,
                  orderDetails, timers, timeouts, inflight, last, fails, otherVars >>

\* The screen is left and opened again.
TimelineReopen ==
  /\ ~details.isLoading
  /\ details' = DetailsInit
  /\ UNCHANGED << currentScreen, backend, navigationData, inst, riderStatus,
                  orderDetails, timers, timeouts, inflight, last, fails, otherVars >>

TimelineInit ==
  /\ currentScreen = "ActiveDeliveryDetails"
  /\ TrackingInit
  /\ OthersInit

TimelineNext ==
  \/ \E order \in AnyOrder, eta \in 0..MaxEta : TimelineLoad(order, eta)
  \/ TimelineReopen

TimelineSpec == TimelineInit /\ [][TimelineNext]_vars

\* The session: sign-in, sign-out, app start and the ApiClient's interceptor.
SessionInit ==
  /\ currentScreen = "Welcome"
  /\ TrackingInit
  /\ locationState = LocationStateInit
  /\ storage = NoTokens
  /\ auth = AuthInit
  /\ api = ApiInit
  /\ otp = OtpInit
  /\ lists = ListsInit
  /\ form = FormInit

CenterStatuses == {"approved", "pending_hq_approval", "rejected"}
HttpStatuses == {200, Unauthorized, 500}

SessionNext ==
  \/ appStart
  \/ handleVerify
  \/ \E centerStatus \in CenterStatuses : initialize(centerStatus)
  \/ onProfilePress
  \/ onSignOut
  \/ \E i \in 1..MaxRequests : apiSend(i)
  \/ \E i \in 1..MaxRequests, status \in HttpStatuses : apiResponse(i, status)
  \/ \E i \in 1..MaxRequests, outcome \in {"success", "nosuccess", "throw"} :
       refreshResponse(i, outcome)

SessionSpec == SessionInit /\ [][SessionNext]_vars

\* The OTP screen; the one-second timeout of its countdown fires when due.
OtpSpecInit ==
  /\ currentScreen = "PhoneEntry"
  /\ TrackingInit
  /\ locationState = LocationStateInit
  /\ storage = NoTokens
  /\ auth = AuthInit
  /\ api = ApiInit
  /\ otp = OtpInit
  /\ lists = ListsInit
  /\ form = FormInit

OtpNext ==
  \/ otpMount
  \/ otpBack
  \/ countdownTimeout
  \/ \E d \in {-1, 1} : handleOtpChange(d)
  \/ handleResend

OtpSpec == OtpSpecInit /\ [][OtpNext]_vars /\ WF_vars(countdownTimeout)

\* The two order lists for every response of GET /orders/my.
ListsSpecInit ==
  /\ currentScreen = "ActiveDeliveries"
  /\ TrackingInit
  /\ OthersInit

ListsNext ==
  \/ \E to \in {"ActiveDeliveries", "DeliveryHistory"} : listTabPress(to)
  \/ \E orders \in OrderLists : loadActiveDeliveries(orders)
  \/ \E orders \in OrderLists : loadDeliveryHistory(orders)

ListsSpec == ListsSpecInit /\ [][ListsNext]_vars

\* The Create Delivery form.
FormSpecInit ==
  /\ currentScreen = "CreateDelivery"
  /\ TrackingInit
  /\ OthersInit

FormNext ==
  \/ \E enabled \in BOOLEAN, count \in 0..MaxHospitals,
        relationship \in {"dependent", "independent"} :
       loadCenterFeatures(enabled, count, relationship)
  \/ \E h \in 1..MaxHospitals : selectHospital(h)
  \/ \E t \in SampleIds, change \in {-1, 1} : pressSampleCount(t, change)
  \/ pressCreateDelivery

FormSpec == FormSpecInit /\ [][FormNext]_vars

\* ------------------------------------------------------------------ claims
\* The step handles the response to request r (and sends nothing).
Answers(r) == r \in InFlight /\ inflight' = Receive(inflight, r)

\* The same component instance is on screen before and after the step.
SameInstance == currentScreen' = currentScreen /\ inst' = inst

\* The interval a screen polls at when no fetch has failed.
BaseInterval(t) == IF t.scr = "DeliveryCreated" THEN PollIntervalMs
                                                ELSE LocationIntervalMs

\* C1: the status held by a mounted DeliveryCreated screen only moves forward
\* along the lifecycle or to cancelled; any other change is rejected.
C1_StatusOnlyMovesForward ==
  [][(currentScreen = "DeliveryCreated" /\ SameInstance
        /\ riderStatus'.status # riderStatus.status)
       => Rank(riderStatus'.status) > Rank(riderStatus.status)]_vars

C3_OnePollingLoopPerOrder ==
  \A o \in Orders : Cardinality({ t \in timers : t.order = o }) <= 1

\* ActiveDeliveryDetails polls the order DeliveryCreated polled before it.
C3_Witness ==
  /\ currentScreen = "ActiveDeliveryDetails"
  /\ inst >= 2
  /\ \E t \in timers : t.scr = "ActiveDeliveryDetails" /\ t.inst = inst
                       /\ t.order = navigationData.orderData

\* C4: once a screen is unmounted (its poll cleanup ran), the continuation of
\* a fetch it had in flight never calls its state setters.
C4_NoCallbackAfterUnmount == ~last.late

\* C5: a DeliveryCreated poll response captured before what the screen holds
\* is a no-op.
C5_StaleResponseAbsorbed ==
  [][\A r \in InFlight :
       (Answers(r) /\ r.kind = "pollRiderStatus" /\ Mounted(r.inst)
          /\ r.snap.updated_at < riderStatus.last_updated)
         => /\ riderStatus'.status = riderStatus.status
            /\ riderStatus'.rider = riderStatus.rider
            /\ riderStatus'.last_updated = riderStatus.last_updated]_vars

\* C6: a response that carries what the screen already holds leaves the
\* held status, rider, timestamps, custody list, rider location and the
\* timeline as they were.
C6_SameSnapshotTwice ==
  [][((\E r \in InFlight : Answers(r)) /\ last'.repeat)
       => /\ riderStatus' = riderStatus
          /\ details' = details
          /\ orderDetails'.order = orderDetails.order
          /\ orderDetails'.timing = orderDetails.timing
          /\ orderDetails'.chainOfCustody = orderDetails.chainOfCustody]_vars

\* DeliveryCreated was answered twice with the same assigned order.
C6_Witness ==
  /\ last.repeat
  /\ currentScreen = "DeliveryCreated"
  /\ riderStatus.status = "assigned" /\ riderStatus.rider

\* C7: a poll that fails for the mounted screen leaves the held status, rider
\* and rider location unchanged, and the interval of the screen stays set.
C7_FailedPollKeepsState ==
  [][\A r \in InFlight :
       (Answers(r) /\ r.kind \in {"pollRiderStatus", "pollRiderLocation"}
          /\ last'.op \in {"throw", "nodata"} /\ ~last'.late)
         => /\ riderStatus'.status = riderStatus.status
            /\ riderStatus'.rider = riderStatus.rider
            /\ riderStatus'.last_updated = riderStatus.last_updated
            /\ details'.orderData = details.orderData
            /\ details'.riderLocation = details.riderLocation
            /\ details'.isRiderLocationActive = details.isRiderLocationActive
            /\ timers' = timers
            /\ \E t \in timers' : t.inst = r.inst]_vars

\* Two polls in a row failed while DeliveryCreated held an assigned order, and
\* its interval is still set.
C7_Witness ==
  /\ currentScreen = "DeliveryCreated"
  /\ last.op = "throw" /\ fails >= 2
  /\ riderStatus.status = "assigned"
  /\ \E t \in timers : t.inst = inst

\* C8: after n consecutive failed fetches the polling interval of the mounted
\* screen is the base interval doubled n-1 times (n up to MaxFails, below any
\* ceiling).
C8_IntervalDoubles ==
  \A t \in timers :
    (Mounted(t.inst) /\ fails >= 1) => t.delay = BaseInterval(t) * 2 ^ (fails - 1)

\* C9: every successful rider-location poll of the mounted
\* ActiveDeliveryDetails re-applies the fetched order and rebuilds its timeline.
C9_PollReappliesStatus ==
  [][\A r \in InFlight :
       (Answers(r) /\ r.kind = "pollRiderLocation" /\ last'.op = "ok" /\ ~last'.late)
         => /\ details'.orderData = r.snap
            /\ details'.timeline = buildTimelineFromOrder(r.snap)]_vars

\* The timestamp buildTimelineFromOrder reads for step k (created_at for the
\* first step, which every order has).
StepStamp(order, k) ==
  CASE k = 1 -> 1
    [] k = 2 -> order.ts["assigned_at"]
    [] k = 3 -> order.ts["pickup_started_at"]
    [] k = 4 -> order.ts["picked_up_at"]
    [] k = 5 -> order.ts["delivered_at"]

\* ActiveDeliveryDetails shows the timeline built from the order it loaded.
TimelineShown == currentScreen = "ActiveDeliveryDetails" /\ details.timeline # << >>

\* C12: in the timeline shown, a step is completed iff its timestamp is set,
\* and current iff it is the first step without a timestamp (every step
\* before it has one); every other step is pending.
C12_StepStatusRule ==
  TimelineShown =>
    \A k \in 1..5 :
      LET st == details.timeline[k].status
          stamped(j) == StepStamp(details.orderData, j) # 0
      IN /\ st = "completed" <=> stamped(k)
         /\ st = "current" <=> (~stamped(k) /\ \A j \in 1..(k - 1) : stamped(j))
         /\ st \in {"completed", "current", "pending"}

\* C13: the timeline shown for an assigned order with a rider has step 2
\* (Rider Assignment) completed and step 3 (En Route to Pickup) current.
C13_AssignedTimeline ==
  (TimelineShown /\ details.orderData.status = "assigned" /\ details.orderData.rider)
    => /\ details.timeline[2].status = "completed"
       /\ details.timeline[3].status = "current"

\* C14: in the timeline shown, every step before a completed step is
\* completed (a step without a timestamp before a stamped one included).
C14_GapStepCompleted ==
  TimelineShown =>
    \A k \in 1..5 : \A j \in 1..(k - 1) :
      details.timeline[k].status = "completed"
        => details.timeline[j].status = "completed"

C17_NoOrphanedTimers ==
  currentScreen \notin Tracked
    => /\ timers = {}
       /\ \A h \in timeouts : h.by # "pollRiderLocation"

\* C18: the client never sends a cancellation for an order it shows as
\* delivered.
C18_NoCancelOfDelivered ==
  ~(last.op = "cancelRefused" /\ riderStatus.status = "delivered")

\* A held order carries a rider exactly when its status says one was assigned
\* (for a cancelled order either is possible).
RiderMatchesStatus(status, rider) ==
  /\ status \in {"assigned", "pickup_started", "picked_up", "delivery_started",
                 "delivered"} => rider
  /\ status \in {"null", "pending_rider_assignment"} => ~rider

C20_StaleSampleNotLive == last.stale => ~details.isRiderLocationActive


\* The region contains the coordinate c (all in half units).
InRegion(region, c) ==
  /\ 2 * region.latitude - region.latitudeDelta <= 4 * c.latitude
  /\ 4 * c.latitude <= 2 * region.latitude + region.latitudeDelta
  /\ 2 * region.longitude - region.longitudeDelta <= 4 * c.longitude
  /\ 4 * c.longitude <= 2 * region.longitude + region.longitudeDelta

\* C21: the map region computed for the coordinates on the map contains all
\* of them; its center is the midpoint of the extremes, each span is the
\* extent times 1.5 and at least the minimum span 0.01, so never zero.
C21_RegionCoversCoordinates ==
  LET region == renderMapRegion(locationState)
      cs == allCoordinates(locationState)
      lats == { c.latitude : c \in cs }
      lngs == { c.longitude : c \in cs }
  IN /\ \A c \in cs : InRegion(region, c)
     /\ region.latitude = SetMin(lats) + SetMax(lats)
     /\ region.longitude = SetMin(lngs) + SetMax(lngs)
     /\ region.latitudeDelta >= 2 * MinSpan
     /\ region.longitudeDelta >= 2 * MinSpan
     /\ region.latitudeDelta >= PaddingTwice * (SetMax(lats) - SetMin(lats))
     /\ region.longitudeDelta >= PaddingTwice * (SetMax(lngs) - SetMin(lngs))

\* Pickup, delivery and rider are at the same point: the region has the
\* minimum span in both directions.
C21_Witness ==
  /\ locationState.collectionCenter = locationState.hospital
  /\ locationState.riderLocation = locationState.hospital
  /\ renderMapRegion(locationState).latitudeDelta = 2 * MinSpan
  /\ renderMapRegion(locationState).longitudeDelta = 2 * MinSpan

\* C23: the timeline built for any order status and any combination of step
\* timestamps has at most one step marked current, and its first step (Order
\* Created) is completed.
C23_OneCurrentStep ==
  details.timeline # << >> =>
    /\ Cardinality({ k \in 1..5 : details.timeline[k].status = "current" }) <= 1
    /\ details.timeline[1].status = "completed"

\* The timeline of an order on its way to the hospital whose pickup was never
\* stamped: the last step is the current one, the unstamped one is pending.
C23_Witness ==
  /\ details.timeline # << >>
  /\ details.orderData.status = "delivery_started"
  /\ details.orderData.ts["delivered_at"] = 0
  /\ details.orderData.ts["picked_up_at"] = 0
  /\ details.timeline[5].status = "current"
  /\ details.timeline[4].status = "pending"

C25_LocationPollNeedsRider ==
  /\ [](\A t \in timers :
          t.scr = "ActiveDeliveryDetails"
            => (Mounted(t.inst) /\ details.orderData.rider))
  /\ [](\A r \in InFlight :
          (r.kind = "pollRiderLocation" /\ Mounted(r.inst))
            => details.orderData.rider)
  /\ [][last'.op = "noposition"
          => /\ details'.riderLocation = details.riderLocation
             /\ details'.isRiderLocationActive = details.isRiderLocationActive
             /\ details'.estimatedTimeToDelivery = details.estimatedTimeToDelivery]_vars

\* A tracking response without a position was handled while a rider position
\* and an ETA were held.
C25_Witness ==
  /\ currentScreen = "ActiveDeliveryDetails"
  /\ last.op = "noposition"
  /\ details.riderLocation # 0
  /\ details.estimatedTimeToDelivery # 0

\* C26: a request is sent at most twice and the token is refreshed at most
\* once on its behalf; a 401 for a request already marked as retried rejects
\* it without another refresh.
C26_RetryAtMostOnce ==
  /\ [](\A i \in 1..MaxRequests : api[i].sends <= 2 /\ api[i].refreshes <= 1)
  /\ [][\A i \in 1..MaxRequests :
          (api[i].phase = "sent" /\ api[i].retried /\ api'[i] # api[i])
            => /\ api'[i].phase \in {"resolved", "rejected", "new"}
               /\ api'[i].refreshes <= api[i].refreshes]_vars

\* A request was answered 401, refreshed, sent again and rejected.
C26_Witness ==
  \E i \in 1..MaxRequests :
    /\ api[i].phase = "rejected"
    /\ api[i].retried
    /\ api[i].sends = 2
    /\ api[i].refreshes = 1

\* C27: once the user has signed out, the auth store is unauthenticated, the
\* stored tokens are removed, and the Dashboard is not shown again.
C27_SignOutClearsSession ==
  auth.signedOut
    => /\ ~auth.isAuthenticated
       /\ ~storage.access_token
       /\ ~storage.refresh_token
       /\ currentScreen # "Dashboard"

\* What handleResend may not touch when it returns at its guard.
OtpHeld(o) == << o.timeLeft, o.canResend, o.digits, o.timer >>

\* C28: on the OTP screen canResend is true only at countdown 0; a resend
\* while it is false changes nothing; a permitted resend sets the countdown
\* to 60 and clears the flag; and the countdown of the mounted screen always
\* reaches 0 and enables the resend.
C28_ResendCountdown ==
  /\ [](otp.canResend => otp.timeLeft = 0)
  /\ [][otp'.event = "refused" => OtpHeld(otp') = OtpHeld(otp)]_vars
  /\ [][(otp'.event = "resend" /\ otp' # otp)
          => /\ otp.canResend
             /\ otp'.timeLeft = CountdownSeconds
             /\ ~otp'.canResend]_vars
  /\ (currentScreen = "OTPVerification" /\ otp.timeLeft > 0)
       ~> (otp.canResend \/ currentScreen # "OTPVerification")

\* The code was resent after the countdown ran out, and the second countdown
\* has started.
C28_Witness ==
  /\ currentScreen = "OTPVerification"
  /\ otp.event = "resend"
  /\ otp.timeLeft = CountdownSeconds
  /\ otp.timer
  /\ ~otp.canResend

\* C29: for every list of orders answered, no order is both in the active
\* list and in the history list made from it; the active list shown holds
\* only orders that are under way, the history only delivered or cancelled.
C29_ListsDisjoint ==
  /\ { o.id : o \in activeOrders(lists.response) }
       \cap { o.id : o \in historyOrders(lists.response) } = {}
  /\ { o.id : o \in lists.deliveries } \cap { o.id : o \in lists.deliveryHistory } = {}
  /\ \A o \in lists.deliveries :
       o.status \in {"pending_rider_assignment", "assigned", "pickup_started",
                     "picked_up", "delivery_started"}
  /\ \A o \in lists.deliveryHistory : o.status \in {"delivered", "cancelled"}

\* The history shows a delivered order out of a list that also holds an order
\* under way.
C29_Witness ==
  /\ currentScreen = "DeliveryHistory"
  /\ \E o \in lists.deliveryHistory : o.status = "delivered"
  /\ \E o \in Listed(lists.response) : o.status = "delivery_started"

\* C30: no sample count is negative; every createOrder call names a hospital
\* and at least one sample; a press without a hospital, or with the
\* sample_type_quantity feature on and no count above 0, makes no call.
C30_CreateGuards ==
  /\ [](\A t \in SampleIds : form.sampleTypes[t] >= 0)
  /\ [](\A o \in form.press.orders : o.hospital_id # 0 /\ o.sample_quantity > 0)
  /\ [](form.press.outcome \in {"no hospital", "no sample"} => form.press.orders = {})
  /\ [][form'.press # form.press
          => IF \/ form.selectedHospital = 0
                \/ /\ form.sample_type_quantity
                   /\ \A t \in SampleIds : form.sampleTypes[t] = 0
               THEN form'.press.orders = {}
               ELSE form'.press.orders # {}]_vars

\* With the feature on and a hospital selected, a press with every count at
\* 0 was refused.
C30_Witness ==
  /\ form.sample_type_quantity
  /\ form.selectedHospital # 0
  /\ \A t \in SampleIds : form.sampleTypes[t] = 0
  /\ form.press.outcome = "no sample"

=============================================================================
